---- MODULE Spec2Model ----
(***************************************************************************)
(* Navmesh of camera-topdown-threejs: the mesh graph (Vertex, Edge, Face), *)
(* the builder, the point locator (register), the point mover (move) and   *)
(* dispose; and the Playspace with its asynchronous scene loads.           *)
(* Numbers are exact rationals <<n, d>>; vectors are triples of rationals. *)
(* Object references are indices into per-class heaps, 0 standing for      *)
(* null/undefined.                                                         *)
(***************************************************************************)
EXTENDS Integers, Sequences, FiniteSets, TLC

\* ------------------------------------------------------------ rationals
Abs(x) == IF x < 0 THEN -x ELSE x

RECURSIVE GCD(_, _)
GCD(a, b) == IF b = 0 THEN a ELSE GCD(b, a % b)

\* n/d in lowest terms with a positive denominator
Q(n, d) ==
  LET g == GCD(Abs(n), Abs(d))
      s == IF d < 0 THEN -1 ELSE 1
  IN <<(s * n) \div g, (s * d) \div g>>

I(n) == <<n, 1>>
QAdd(p, q) == Q(p[1] * q[2] + q[1] * p[2], p[2] * q[2])
QSub(p, q) == Q(p[1] * q[2] - q[1] * p[2], p[2] * q[2])
QMul(p, q) == Q(p[1] * q[1], p[2] * q[2])
QDiv(p, q) == Q(p[1] * q[2], p[2] * q[1])
QLt(p, q) == p[1] * q[2] < q[1] * p[2]
QGe0(p) == p[1] >= 0
QLt0(p) == p[1] < 0

\* exact square root of a perfect square
ISqrt(n) == CHOOSE r \in 0..n : r * r = n
QSqrt(p) == <<ISqrt(p[1]), ISqrt(p[2])>>

\* ------------------------------------------------------ THREE.Vector3
V3(x, y, z) == <<I(x), I(y), I(z)>>
VAdd(u, v) == <<QAdd(u[1], v[1]), QAdd(u[2], v[2]), QAdd(u[3], v[3])>>
VSub(u, v) == <<QSub(u[1], v[1]), QSub(u[2], v[2]), QSub(u[3], v[3])>>
VScale(u, s) == <<QMul(u[1], s), QMul(u[2], s), QMul(u[3], s)>>
VDot(u, v) == QAdd(QAdd(QMul(u[1], v[1]), QMul(u[2], v[2])), QMul(u[3], v[3]))
VCross(u, v) ==
  << QSub(QMul(u[2], v[3]), QMul(u[3], v[2])),
     QSub(QMul(u[3], v[1]), QMul(u[1], v[3])),
     QSub(QMul(u[1], v[2]), QMul(u[2], v[1])) >>
\* Vector3.normalize: divideScalar(length() || 1)
VNormalize(u) ==
  LET len == QSqrt(VDot(u, u))
  IN IF len[1] = 0 THEN u ELSE VScale(u, QDiv(I(1), len))

\* ------------------------------------------------------------- math.js
\* unit normal of the triangle a, b, c (winding gives the direction)
triangle_normal(a, b, c) == VNormalize(VCross(VSub(b, a), VSub(c, a)))

\* p moved along the unit normal onto the plane through origin
project_on_plane(p, origin, normal) ==
  VSub(p, VScale(normal, VDot(VSub(p, origin), normal)))

\* weights (x, y, z) of a, b, c with x + y + z = 1 for a point of their plane
get_barycentric_coordinates(a, b, c, p) ==
  LET v0 == VSub(b, a)
      v1 == VSub(c, a)
      v2 == VSub(p, a)
      d00 == VDot(v0, v0)
      d01 == VDot(v0, v1)
      d11 == VDot(v1, v1)
      d20 == VDot(v2, v0)
      d21 == VDot(v2, v1)
      denom == QSub(QMul(d00, d11), QMul(d01, d01))
      v == QDiv(QSub(QMul(d11, d20), QMul(d01, d21)), denom)
      w == QDiv(QSub(QMul(d00, d21), QMul(d01, d20)), denom)
  IN <<QSub(QSub(I(1), v), w), v, w>>

barycentric_to_cartesian(a, b, c, bc) ==
  VAdd(VAdd(VScale(a, bc[1]), VScale(b, bc[2])), VScale(c, bc[3]))

clamp(lo, hi, x) == IF QLt(x, lo) THEN lo ELSE IF QLt(hi, x) THEN hi ELSE x

\* nearest point to p on the segment a, b
project_on_line(a, b, p) ==
  LET ab == VSub(b, a)
      t == clamp(I(0), I(1), QDiv(VDot(VSub(p, a), ab), VDot(ab, ab)))
  IN VAdd(a, VScale(ab, t))

\* ------------------------------------------------------- Navmesh._hash
\* Math.round(Math.log(m10 / 10 + 1) * 1e8), tabulated for the arguments
\* that vertex indices 0..15 produce
LnE8(m10) ==
  CASE m10 = 0 -> 0
  [] m10 = 99 -> 238876279
  [] m10 = 198 -> 303495299
  [] m10 = 270 -> 333220451
  [] m10 = 297 -> 342426265
  [] m10 = 396 -> 370376807
  [] m10 = 495 -> 392197334
  [] m10 = 540 -> 400733319
  [] m10 = 594 -> 410098910
  [] m10 = 693 -> 425277180
  [] m10 = 792 -> 438452351
  [] m10 = 810 -> 440671925
  [] m10 = 891 -> 450092016
  [] m10 = 990 -> 460517019
  [] m10 = 1080 -> 469134788
  [] m10 = 1089 -> 469957086
  [] m10 = 1188 -> 478582369
  [] m10 = 1287 -> 486522409
  [] m10 = 1350 -> 491265489
  [] m10 = 1386 -> 493878119
  [] m10 = 1485 -> 500729639
  [] m10 = 1584 -> 507141677
  [] m10 = 1620 -> 509375020
  [] m10 = 1782 -> 518850250
  [] m10 = 1980 -> 529330482
  [] m10 = 2079 -> 534185567
  [] m10 = 2160 -> 537989735
  [] m10 = 2178 -> 538815807
  [] m10 = 2376 -> 547478851
  [] m10 = 2430 -> 549716823
  [] m10 = 2475 -> 551544285
  [] m10 = 2574 -> 555450877
  [] m10 = 2673 -> 559210576
  [] m10 = 2700 -> 560211882
  [] m10 = 2772 -> 562834028
  [] m10 = 2970 -> 569709349
  [] m10 = 3168 -> 576142225
  [] m10 = 3240 -> 578382518
  [] m10 = 3267 -> 579209856
  [] m10 = 3465 -> 585076467
  [] m10 = 3564 -> 587885560
  [] m10 = 3861 -> 595868306
  [] m10 = 3960 -> 598393628
  [] m10 = 4050 -> 600635316
  [] m10 = 4158 -> 603260649
  [] m10 = 4320 -> 607073773
  [] m10 = 4356 -> 607901744
  [] m10 = 4455 -> 610143940
  [] m10 = 4752 -> 616583793
  [] m10 = 4851 -> 618641436
  [] m10 = 4860 -> 618826412
  [] m10 = 4950 -> 620657593
  [] m10 = 5148 -> 624571909
  [] m10 = 5346 -> 628338761
  [] m10 = 5400 -> 629341928
  [] m10 = 5445 -> 630170281
  [] m10 = 5544 -> 631968857
  [] m10 = 5940 -> 638856141
  [] m10 = 6237 -> 643727153
  [] m10 = 6336 -> 645299488
  [] m10 = 6435 -> 646847482
  [] m10 = 6480 -> 647543272
  [] m10 = 6534 -> 648371879
  [] m10 = 6750 -> 651619308
  [] m10 = 6930 -> 654247196
  [] m10 = 7128 -> 657060281
  [] m10 = 7290 -> 659304453
  [] m10 = 7425 -> 661136877
  [] m10 = 7623 -> 663765114
  [] m10 = 7722 -> 665053775
  [] m10 = 7920 -> 667582322
  [] m10 = 8019 -> 668823017
  [] m10 = 8100 -> 669826805
  [] m10 = 8316 -> 672455333
  [] m10 = 8640 -> 676272951
  [] m10 = 8712 -> 677101876
  [] m10 = 8910 -> 679346613
  [] m10 = 9009 -> 680450365
  [] m10 = 9504 -> 685793458
  [] m10 = 9702 -> 687853242
  [] m10 = 9720 -> 688038408
  [] m10 = 9801 -> 688867439
  [] m10 = 9900 -> 689871453
  [] m10 = 10296 -> 693789644
  [] m10 = 10395 -> 694745665
  [] m10 = 10692 -> 697560083
  [] m10 = 10800 -> 698564182
  [] m10 = 10890 -> 699393298
  [] m10 = 11088 -> 701193510
  [] m10 = 11583 -> 705557165
  [] m10 = 11880 -> 708086790
  [] m10 = 11979 -> 708915975
  [] m10 = 12150 -> 710332206
  [] m10 = 12474 -> 712961801
  [] m10 = 12870 -> 716084591
  [] m10 = 12960 -> 716780918
  [] m10 = 13068 -> 717610162
  [] m10 = 13365 -> 719855748
  [] m10 = 13500 -> 720860034
  [] m10 = 13860 -> 723489842
  [] m10 = 14157 -> 725608550
  [] m10 = 14256 -> 726304927
  [] m10 = 14580 -> 728550655
  [] m10 = 14850 -> 730384323
  [] m10 = 15246 -> 733014305
  [] m10 = 15444 -> 734303806
  [] m10 = 16200 -> 739079852
  [] m10 = 16335 -> 739909223
  [] m10 = 16632 -> 741709981
  [] m10 = 16731 -> 742303099
  [] m10 = 17280 -> 745529849
  [] m10 = 17820 -> 748605262
  [] m10 = 18018 -> 749709629
  [] m10 = 19305 -> 756605218
  [] m10 = 19404 -> 757116464
  [] m10 = 19440 -> 757301726
  [] m10 = 20250 -> 761381868
  [] m10 = 20790 -> 764012317
  [] m10 = 21600 -> 767832636
  [] m10 = 22275 -> 770908399
  [] m10 = 24300 -> 779605797
  [] m10 = 25920 -> 786057079
  [] m10 = 27000 -> 790137735
  [] m10 = 29160 -> 797831097
  [] m10 = 32400 -> 808363720
  [] m10 = 33750 -> 812444686
  [] m10 = 38880 -> 826590733
  [] m10 = 40500 -> 830671904
  [] m10 = 48600 -> 848899946
  [] m10 = 56700 -> 864312075
  [] m10 = 58320 -> 867128673
  [] m10 = 90720 -> 911305825
  [] m10 = 136080 -> 951848662
  [] m10 = 194400 -> 987513952
  [] m10 = 267300 -> 1019357922
  [] m10 = 356400 -> 1048125194
  [] m10 = 463320 -> 1074360973
  [] m10 = 589680 -> 1098476716
  [] m10 = 737100 -> 1120790732

E8 == 100000000
DefaultC10 == 11

\* "h" + Math.round((a + b + c + Math.log(a * b * c + 1)) * 1e8), with c given
\* in tenths (the default c = 1.1 is 11). The key is the pair <<hi, lo>> of the
\* rounded number hi * 1e8 + lo.
hash(a, b, c10) ==
  LET sum10 == 10 * a + 10 * b + c10
      L == LnE8(a * b * c10)
      lo == (sum10 % 10) * (E8 \div 10) + (L % E8)
      hi == (sum10 \div 10) + (L \div E8)
  IN IF lo >= E8 THEN <<hi + 1, lo - E8>> ELSE <<hi, lo>>

\* ---------------------------------------------------------------- inputs
\* Indexed triangle meshes handed to build: index holds the vertex indices,
\* three per triangle, position the coordinates, three per vertex.
QuadMesh ==
  [ index |-> <<0, 1, 2, 0, 2, 3>>,
    position |-> <<0, 0, 0, 1, 0, 0, 1, 1, 0, 0, 1, 0>> ]
SingleMesh ==
  [ index |-> <<0, 1, 2>>,
    position |-> <<0, 0, 0, 1, 0, 0, 1, 1, 0>> ]
\* two triangles at a right angle along the edge 0-2
FoldMesh ==
  [ index |-> <<0, 1, 2, 0, 2, 3>>,
    position |-> <<0, 0, 0, 2, 0, 0, 0, 2, 0, 0, 0, 2>> ]
\* planar and not convex at vertex 2
DartMesh ==
  [ index |-> <<0, 1, 2, 0, 2, 3>>,
    position |-> <<0, 0, 0, 16, 0, 0, 2, 1, 0, 16, 16, 0>> ]
\* planar fan around vertex 0
FanMesh ==
  [ index |-> <<0, 1, 4, 0, 4, 2, 0, 2, 3>>,
    position |-> <<0, 0, 0, 1, 0, 0, 0, 1, 0, -1, 1, 0, 1, 1, 0>> ]
\* the unit quad, a third triangle on its edge 2-3, and a fourth triangle that
\* starts on the open edge 1-2 and would be the third on the edge 2-3
NonManifoldMesh ==
  [ index |-> <<0, 1, 2, 0, 2, 3, 3, 2, 4, 1, 2, 3>>,
    position |-> <<0, 0, 0, 1, 0, 0, 1, 1, 0, 0, 1, 0, 1, 2, 0>> ]
\* planar strip of 13 triangles i, i+1, i+2 between the lines y = x - 1 and
\* y = x + 1
StripMesh ==
  [ index |-> <<0, 1, 2, 1, 2, 3, 2, 3, 4, 3, 4, 5, 4, 5, 6, 5, 6, 7, 6, 7,
                8, 7, 8, 9, 8, 9, 10, 9, 10, 11, 10, 11, 12, 11, 12, 13,
                12, 13, 14>>,
    position |-> <<0, 1, 0, 1, 0, 0, 1, 2, 0, 2, 1, 0, 2, 3, 0, 3, 2, 0, 3, 4,
                   0, 4, 3, 0, 4, 5, 0, 5, 4, 0, 5, 6, 0, 6, 5, 0, 6, 7, 0, 7,
                   6, 0, 7, 8, 0>> ]
Meshes ==
  {QuadMesh, SingleMesh, FoldMesh, DartMesh, FanMesh, NonManifoldMesh, StripMesh}

\* positions handed to register
RegisterPositions ==
  { <<Q(3, 4), Q(1, 4), I(1)>>, <<Q(1, 2), Q(1, 2), I(0)>>, V3(9, 9, 9) }
\* positions handed to move
Targets ==
  { <<Q(3, 4), Q(1, 4), I(0)>>, <<Q(1, 4), Q(3, 4), I(0)>>, V3(7, 7, 0),
    <<I(-1), Q(1, 2), I(-1)>> }

\* calls of Playspace.stop and Playspace.dispose allowed in one run
MaxStops == 2
\* registrations allowed in one run
MaxPoints == 2
\* the count of walk passes kept per call stops here
MaxIters == 16

\* ----------------------------------------------------------------- state
VARIABLES
  vertexObjs,  \* every Vertex constructed: [pos]
  edgeObjs,    \* every Edge constructed: [id, a, b, left, right]
  faceObjs,    \* every Face constructed: [id, pa, pb, pc, ea, eb, ec, normal]
  verticies,   \* Navmesh.verticies: vertex index -> Vertex
  edges,       \* Navmesh.edges: hash -> Edge
  faces,       \* Navmesh.faces in key insertion order: <<[key, obj], ...>>
  points,      \* Navmesh.points: n -> NavmeshPoint, for the id "p" + n
  guids,       \* Navmesh.guids
  phase,       \* "idle", or "walk" inside the loop of move
  loc,         \* the locals of the running move
  ret,         \* how the last call ended
  built,       \* the argument of the last build and whether it returned
  disposed     \* whether Navmesh.dispose has run

vars ==
  <<vertexObjs, edgeObjs, faceObjs, verticies, edges, faces, points, guids,
    phase, loc, ret, built, disposed>>

\* the Playspace, its THREE.Scene and the loads it has started
VARIABLES
  scene,            \* whether this._scene is set
  children,         \* the objects attached to the THREE.Scene
  playscene,        \* this.playscene: the name of a loaded scene, or null
  plane,            \* whether this.plane is set
  lights,           \* this.lights: "null", or a LightsA "running" or "stopped"
  controllers,      \* whether camera_controller and pawn_controller are set
  json_pending,     \* the get_json promises not yet resolved, by scene name
  gltf_pending,     \* the get_gltf promises not yet resolved
  life,             \* the calls made so far: inited, ran, stopped
  pret              \* how the last call or callback ended

pvars ==
  <<scene, children, playscene, plane, lights, controllers, json_pending,
    gltf_pending, life, pret>>

Null == 0
NoMesh == [index |-> <<>>, position |-> <<>>]
NoLoc == [id |-> -1]
NoVec == <<>>

\* the table t (a function) with key k set to v
Put(t, k, v) == [x \in DOMAIN t \cup {k} |-> IF x = k THEN v ELSE t[x]]
Get(t, k) == IF k \in DOMAIN t THEN t[k] ELSE Null
EmptyTable == [x \in {} |-> Null]

\* the one element of a singleton; { F(x) : x \in {e} } evaluates e once
The(S) == CHOOSE x \in S : TRUE

\* ------------------------------------------------------------------ Edge
Edge(id, a, b) == [id |-> id, a |-> a, b |-> b, left |-> Null, right |-> Null]

Edge_has(e, v) == e.a = v \/ e.b = v

\* Edge_add that drops a third face without throwing
Edge_add_dropThird(e, face) ==
  IF e.left = Null THEN [ok |-> TRUE, e |-> [e EXCEPT !.left = face]]
  ELSE IF e.right = Null THEN [ok |-> TRUE, e |-> [e EXCEPT !.right = face]]
  ELSE [ok |-> TRUE, e |-> e]

\* the edge after add(face), and whether add returned (ok) or threw
Edge_add(e, face) ==
  IF e.left = Null THEN [ok |-> TRUE, e |-> [e EXCEPT !.left = face]]
  ELSE IF e.right = Null THEN [ok |-> TRUE, e |-> [e EXCEPT !.right = face]]
  ELSE [ok |-> FALSE, e |-> e]

Edge_other(e, face) ==
  IF e.left = face THEN e.right
  ELSE IF e.right = face THEN e.left
  ELSE Null

\* ------------------------------------------------------------------ Face
\* The graph G after new Face(id, pa, pb, pc, ea, eb, ec): the face is
\* allocated, then added to ea, eb, ec in turn; the first add that throws
\* ends the constructor (G.ok = FALSE) and the normal stays unset.
Face_addTo(G, e, fid) ==
  LET r == Edge_add(G.edgeObjs[e], fid)
  IN [G EXCEPT !.edgeObjs[e] = r.e, !.ok = r.ok]

Face(G, id, pa, pb, pc, ea, eb, ec) ==
  LET fid == Len(G.faceObjs) + 1
      f == [id |-> id, pa |-> pa, pb |-> pb, pc |-> pc,
            ea |-> ea, eb |-> eb, ec |-> ec, normal |-> NoVec]
  IN The({ IF G3.ok
           THEN [G3 EXCEPT !.faceObjs[fid].normal =
                   triangle_normal(G.vertexObjs[pa].pos, G.vertexObjs[pb].pos,
                                   G.vertexObjs[pc].pos)]
           ELSE G3 :
           G3 \in { IF G2.ok THEN Face_addTo(G2, ec, fid) ELSE G2 :
             G2 \in { IF G1.ok THEN Face_addTo(G1, eb, fid) ELSE G1 :
               G1 \in { Face_addTo([G EXCEPT !.faceObjs = Append(@, f)], ea, fid) } } } })

\* find_opposide_edge that answers ea whatever the vertex
find_opposide_edge_first(eo, f, v) == f.ea

\* the first edge of the face that does not hold v, Null when all three do
find_opposide_edge(eo, f, v) ==
  IF ~Edge_has(eo[f.ea], v) THEN f.ea
  ELSE IF ~Edge_has(eo[f.eb], v) THEN f.eb
  ELSE IF ~Edge_has(eo[f.ec], v) THEN f.ec
  ELSE Null

\* --------------------------------------------------------- Navmesh.build
\* this.verticies[pid] ?? (this.verticies[pid] = new Vertex(p[id], ...))
ResolveVertex(G, pid, p) ==
  IF Get(G.verticies, pid) # Null THEN G
  ELSE LET id == pid * 3
       IN [G EXCEPT
             !.vertexObjs = Append(@, [pos |-> V3(p[id + 1], p[id + 2], p[id + 3])]),
             !.verticies = Put(@, pid, Len(G.vertexObjs) + 1)]

\* this.edges[h] ?? (this.edges[h] = new Edge(h, a, b))
ResolveEdge(G, h, a, b) ==
  IF Get(G.edges, h) # Null THEN G
  ELSE [G EXCEPT !.edgeObjs = Append(@, Edge(h, a, b)),
                 !.edges = Put(@, h, Len(G.edgeObjs) + 1)]

\* this.faces[key] = obj: a new key goes last, a present key keeps its place
FacesPut(fs, key, obj) ==
  IF \E n \in DOMAIN fs : fs[n].key = key
  THEN [n \in DOMAIN fs |-> IF fs[n].key = key THEN [key |-> key, obj |-> obj] ELSE fs[n]]
  ELSE Append(fs, [key |-> key, obj |-> obj])

\* the three vertices of the triangle at indices.array[i..i+2], resolved in turn
ResolveVertices(G, m, i) ==
  The({ ResolveVertex(G2, m.index[i + 3], m.position) :
        G2 \in { ResolveVertex(G1, m.index[i + 2], m.position) :
          G1 \in { ResolveVertex(G, m.index[i + 1], m.position) } } })

\* its three edges, resolved in turn
ResolveEdges(G, v1, v2, v3, hash1, hash2, hash3) ==
  The({ ResolveEdge(G2, hash3, v3, v1) :
        G2 \in { ResolveEdge(G1, hash2, v2, v3) :
          G1 \in { ResolveEdge(G, hash1, v1, v2) } } })

\* new Face(...) on the resolved vertices and edges, then this.faces[hashf] = face
AddFace(G, m, i) ==
  LET id1 == m.index[i + 1] * 3
      id2 == m.index[i + 2] * 3
      id3 == m.index[i + 3] * 3
      hashf == hash(id1, id2, 10 * id3)
  IN The({ IF Gf.ok
           THEN [Gf EXCEPT !.faces = FacesPut(@, hashf, Len(Gf.faceObjs))]
           ELSE Gf :
           Gf \in { Face(G, hashf,
                         G.verticies[m.index[i + 1]], G.verticies[m.index[i + 2]],
                         G.verticies[m.index[i + 3]],
                         G.edges[hash(id1, id2, DefaultC10)],
                         G.edges[hash(id2, id3, DefaultC10)],
                         G.edges[hash(id3, id1, DefaultC10)]) } })

\* one pass of the loop of build, for the triangle at indices.array[i..i+2]
BuildTriangle(G, m, i) ==
  LET id1 == m.index[i + 1] * 3
      id2 == m.index[i + 2] * 3
      id3 == m.index[i + 3] * 3
  IN The({ AddFace(Ge, m, i) :
           Ge \in { ResolveEdges(Gv,
                      Gv.verticies[m.index[i + 1]], Gv.verticies[m.index[i + 2]],
                      Gv.verticies[m.index[i + 3]],
                      hash(id1, id2, DefaultC10), hash(id2, id3, DefaultC10),
                      hash(id3, id1, DefaultC10)) :
             Gv \in { ResolveVertices(G, m, i) } } })

RECURSIVE BuildLoop(_, _, _)
BuildLoop(G, m, i) ==
  IF i >= Len(m.index) \/ ~G.ok THEN G
  ELSE The({ BuildLoop(g, m, i + 3) : g \in {BuildTriangle(G, m, i)} })

Graph ==
  [ vertexObjs |-> vertexObjs, edgeObjs |-> edgeObjs, faceObjs |-> faceObjs,
    verticies |-> verticies, edges |-> edges, faces |-> faces, ok |-> TRUE ]

\* build is called once, on a navmesh that holds no mesh yet
Build(m) ==
  /\ phase = "idle"
  /\ built.mesh = NoMesh
  /\ DOMAIN verticies = {} /\ DOMAIN edges = {} /\ faces = <<>>
  /\ \E G \in {BuildLoop(Graph, m, 0)} :
        /\ vertexObjs' = G.vertexObjs
        /\ edgeObjs' = G.edgeObjs
        /\ faceObjs' = G.faceObjs
        /\ verticies' = G.verticies
        /\ edges' = G.edges
        /\ faces' = G.faces
        /\ ret' = [op |-> "build", status |-> IF G.ok THEN "ok" ELSE "throw",
                   val |-> IF G.ok THEN "undefined" ELSE "Edge::add error"]
        /\ built' = [mesh |-> m, ok |-> G.ok]
  /\ UNCHANGED <<points, guids, phase, loc, disposed>>
  /\ UNCHANGED pvars

\* ------------------------------------------------------ Navmesh.register
FaceBc(f, pos) ==
  LET pa == vertexObjs[f.pa].pos
      pb == vertexObjs[f.pb].pos
      pcpos == vertexObjs[f.pc].pos
  IN The({ [projected_pos |-> projected_pos,
            bcpos |-> get_barycentric_coordinates(pa, pb, pcpos, projected_pos)] :
           projected_pos \in {project_on_plane(pos, pa, f.normal)} })

Inside(bcpos) == QGe0(bcpos[1]) /\ QGe0(bcpos[2]) /\ QGe0(bcpos[3])

\* RegisterScan that keeps the last face that qualifies
RECURSIVE RegisterScan_last(_, _)
RegisterScan_last(pos, n) ==
  IF n > Len(faces) THEN 0
  ELSE The({ IF later # 0 THEN later
             ELSE IF Inside(FaceBc(faceObjs[faces[n].obj], pos).bcpos) THEN n
             ELSE 0 :
             later \in {RegisterScan_last(pos, n + 1)} })

\* the place in this.faces of the face register accepts, 0 when none
RECURSIVE RegisterScan(_, _)
RegisterScan(pos, n) ==
  IF n > Len(faces) THEN 0
  ELSE IF Inside(FaceBc(faceObjs[faces[n].obj], pos).bcpos) THEN n
  ELSE RegisterScan(pos, n + 1)

\* PointId that hands out the same id every time
PointId_same(n) == <<"p", 0>>

\* the id "p" + n that register returns, and its null
PointId(n) == <<"p", n>>
NullId == <<"null">>

NavmeshPoint(id, worldpos, bcpos, face) ==
  [worldpos |-> worldpos, bcpos |-> bcpos, id |-> id, face |-> face]

Register(pos) ==
  /\ phase = "idle"
  /\ guids < MaxPoints
  /\ \E n \in {RegisterScan(pos, 1)} :
        IF n = 0
        THEN /\ ret' = [op |-> "register", status |-> "ok", val |-> NullId]
             /\ UNCHANGED <<points, guids>>
        ELSE \E r \in {FaceBc(faceObjs[faces[n].obj], pos)} :
                /\ guids' = guids + 1
                /\ points' = Put(points, guids,
                                 NavmeshPoint(guids, r.projected_pos, r.bcpos,
                                              faces[n].obj))
                /\ ret' = [op |-> "register", status |-> "ok", val |-> PointId(guids)]
  /\ UNCHANGED <<vertexObjs, edgeObjs, faceObjs, verticies, edges, faces, phase, loc,
                 built, disposed>>
  /\ UNCHANGED pvars

\* ---------------------------------------------------------- Navmesh.move
DeadlockCap == 10

\* face[kn] for the component k of bcpos: x -> pa, y -> pb, z -> pc
FaceVertex(f, k) == IF k = 1 THEN f.pa ELSE IF k = 2 THEN f.pb ELSE f.pc

\* MarkTested that records nothing
MarkTested_forgets(tested, eid) == tested

\* tested_edges[e.id] = e
MarkTested(tested, eid) == tested \cup {eid}

\* ScanComponents without the tested_edges test
RECURSIVE ScanComponents_retests(_, _, _, _)
ScanComponents_retests(f, bcpos, tested, k) ==
  IF k > 3 THEN 0
  ELSE IF QLt0(bcpos[k])
       THEN IF find_opposide_edge(edgeObjs, f, FaceVertex(f, k)) = Null THEN -1 ELSE k
       ELSE ScanComponents_retests(f, bcpos, tested, k + 1)

\* The for loop over x, y, z from component k on: the first negative
\* component whose opposite edge is not yet tested, 0 when the loop ends
\* without one, -1 when e.id is read of an undefined edge.
RECURSIVE ScanComponents(_, _, _, _)
ScanComponents(f, bcpos, tested, k) ==
  IF k > 3 THEN 0
  ELSE IF QLt0(bcpos[k])
       THEN LET e == find_opposide_edge(edgeObjs, f, FaceVertex(f, k))
            IN IF e = Null THEN -1
               ELSE IF edgeObjs[e].id \in tested
                    THEN ScanComponents(f, bcpos, tested, k + 1)
                    ELSE k
       ELSE ScanComponents(f, bcpos, tested, k + 1)

\* ClampOntoEdge that leaves the projected target where it is
ClampOntoEdge_none(e, projected_pos) == projected_pos

\* np after the correction step: projected_pos clamped onto the edge
ClampOntoEdge(e, projected_pos) ==
  project_on_line(vertexObjs[e.a].pos, vertexObjs[e.b].pos, projected_pos)

\* Commit that stores bcpos and leaves worldpos as it was
Commit_bcposOnly(p, bcpos) == [p EXCEPT !.bcpos = bcpos]

\* the point after the final step has applied bcpos
Commit(p, bcpos) ==
  LET f == faceObjs[p.face]
  IN [p EXCEPT !.bcpos = bcpos,
               !.worldpos = barycentric_to_cartesian(
                 vertexObjs[f.pa].pos, vertexObjs[f.pb].pos,
                 vertexObjs[f.pc].pos, bcpos)]

\* Throw that returns the message instead of raising it
Throw_returns(what) ==
  /\ phase' = "idle"
  /\ ret' = [op |-> "move", status |-> "ok", val |-> what]

\* throw: the call ends with the error
Throw(what) ==
  /\ phase' = "idle"
  /\ ret' = [op |-> "move", status |-> "throw", val |-> what]

\* the head of move, up to the loop: np, p, changed, deadlock, tested_edges.
\* iters, pre, repeat, crossed, skipped, clampEdge and clampFace record the
\* call for the properties below and are read by no step.
MoveBegin(id, newpos) ==
  /\ phase = "idle"
  /\ built.mesh # NoMesh
  /\ loc' = [ id |-> id, newpos |-> newpos, np |-> newpos, changed |-> TRUE,
              deadlock |-> 0, tested_edges |-> {}, iters |-> 0,
              pre |-> Get(points, id),
              repeat |-> ret.op = "move" /\ ret.status = "ok"
                         /\ loc.id = id /\ loc.newpos = newpos,
              crossed |-> 0, skipped |-> FALSE,
              clampEdge |-> Null, clampFace |-> Null ]
  /\ phase' = "walk"
  /\ ret' = [op |-> "move", status |-> "running", val |-> "undefined"]
  /\ UNCHANGED <<vertexObjs, edgeObjs, faceObjs, verticies, edges, faces,
                 points, guids, built, disposed>>
  /\ UNCHANGED pvars

\* Rebind that moves every registered point to the face
Rebind_all(pts, id, f) == [i \in DOMAIN pts |-> [pts[i] EXCEPT !.face = f]]

\* p.face = f, on the point with that id only
Rebind(pts, id, f) == [pts EXCEPT ![id].face = f]

\* the pass whose for loop stopped at component k > 0: the opposite edge is
\* marked, then crossed to its other face or, without one, clamped against
WalkEdge(p, face, r, k, l1) ==
  LET e == find_opposide_edge(edgeObjs, face, FaceVertex(face, k))
      f == Edge_other(edgeObjs[e], p.face)
      l2 == [l1 EXCEPT !.tested_edges = MarkTested(@, edgeObjs[e].id),
                       !.changed = TRUE]
  IN IF f = Null /\ edgeObjs[e].a = Null
     THEN \* edge.a.pos of a disposed edge
          Throw("TypeError") /\ points' = points /\ loc' = l2
     ELSE
     /\ IF f # Null
        THEN /\ points' = Rebind(points, loc.id, f)
             /\ loc' = [l2 EXCEPT !.crossed = @ + 1]
        ELSE /\ points' = points
             /\ loc' = [l2 EXCEPT
                  !.np = ClampOntoEdge(edgeObjs[e], r.projected_pos),
                  !.clampEdge = e, !.clampFace = p.face]
     /\ IF loc.deadlock > DeadlockCap
        THEN Throw("Navmesh::move. Deadlock")
        ELSE UNCHANGED <<phase, ret>>

\* the pass that changed nothing: bcpos is applied, the loop ends and move
\* returns p.worldpos
WalkCommit(p, r, l1) ==
  /\ points' = [points EXCEPT ![loc.id] = Commit(p, r.bcpos)]
  /\ loc' = [l1 EXCEPT !.changed = FALSE]
  /\ IF loc.deadlock > DeadlockCap
     THEN Throw("Navmesh::move. Deadlock")
     ELSE /\ phase' = "idle"
          /\ ret' = [op |-> "move", status |-> "ok",
                     val |-> points'[loc.id].worldpos]

\* a face whose plane cannot be read: disposed (pa is null) or left by a
\* constructor that threw before the normal was set
Unusable(face) == face.pa = Null \/ face.normal = NoVec

\* one pass of while (changed), and the return when it was the last
WalkStep ==
  /\ phase = "walk"
  /\ UNCHANGED <<vertexObjs, edgeObjs, faceObjs, verticies, edges, faces, guids,
                 built, disposed>>
  /\ UNCHANGED pvars
  /\ IF loc.id \notin DOMAIN points
     THEN \* p.face of undefined
          Throw("TypeError") /\ UNCHANGED <<points, loc>>
     ELSE IF Unusable(faceObjs[points[loc.id].face])
     THEN \* face.pa.pos of a disposed face, or a normal that was never set
          /\ Throw("TypeError") /\ UNCHANGED points
          /\ loc' = [loc EXCEPT !.iters = IF @ < MaxIters THEN @ + 1 ELSE @]
     ELSE
       \E p \in {points[loc.id]} :
       \E face \in {faceObjs[p.face]} :
       \E r \in {FaceBc(face, loc.np)} :
       \E k \in {ScanComponents(face, r.bcpos, loc.tested_edges, 1)} :
         LET skip == \E j \in 1..3 : QLt0(r.bcpos[j]) /\ (k = 0 \/ j < k)
             l1 == [loc EXCEPT !.iters = IF @ < MaxIters THEN @ + 1 ELSE @, !.skipped = @ \/ skip]
         IN IF k = -1 THEN Throw("TypeError") /\ UNCHANGED points /\ loc' = l1
            ELSE IF k = 0 THEN WalkCommit(p, r, l1)
            ELSE WalkEdge(p, face, r, k, l1)

\* ------------------------------------------------------- Navmesh.dispose
Edge_dispose(e) == [e EXCEPT !.left = Null, !.right = Null, !.a = Null, !.b = Null]

\* Face_dispose that releases all three edges
Face_dispose_all(G, fid) ==
  LET f == G.faceObjs[fid]
  IN [G EXCEPT
        !.edgeObjs = [n \in DOMAIN G.edgeObjs |->
                        IF n \in {f.ea, f.eb, f.ec} THEN Edge_dispose(G.edgeObjs[n])
                        ELSE G.edgeObjs[n]],
        !.faceObjs[fid] = [@ EXCEPT !.ea = Null, !.eb = Null, !.ec = Null,
                                    !.pa = Null, !.pb = Null, !.pc = Null]]

\* the graph after face.dispose(): ea is disposed, eb is disposed twice, ec
\* is not, then the face drops its references
Face_dispose(G, fid) ==
  LET f == G.faceObjs[fid]
  IN [G EXCEPT
        !.edgeObjs = [n \in DOMAIN G.edgeObjs |->
                        IF n = f.eb THEN Edge_dispose(Edge_dispose(G.edgeObjs[n]))
                        ELSE IF n = f.ea THEN Edge_dispose(G.edgeObjs[n])
                        ELSE G.edgeObjs[n]],
        !.faceObjs[fid] = [@ EXCEPT !.ea = Null, !.eb = Null, !.ec = Null,
                                    !.pa = Null, !.pb = Null, !.pc = Null]]

\* for (const k in this.faces) this.faces[k].dispose()
RECURSIVE DisposeLoop(_, _)
DisposeLoop(G, n) ==
  IF n > Len(G.faces) THEN G
  ELSE The({ DisposeLoop(g, n + 1) : g \in {Face_dispose(G, G.faces[n].obj)} })

\* dispose is called once, on a navmesh that build was called on
Dispose ==
  /\ phase = "idle"
  /\ built.mesh # NoMesh
  /\ ~disposed
  /\ \E G \in {DisposeLoop(Graph, 1)} :
        /\ edgeObjs' = G.edgeObjs
        /\ faceObjs' = G.faceObjs
  /\ verticies' = EmptyTable
  /\ edges' = EmptyTable
  /\ faces' = <<>>
  /\ disposed' = TRUE
  /\ ret' = [op |-> "dispose", status |-> "ok", val |-> "undefined"]
  /\ UNCHANGED <<vertexObjs, points, guids, phase, loc, built>>
  /\ UNCHANGED pvars

\* ------------------------------------------------------------- Playspace
\* the scenes open_playscene is asked for; each is asked for once
SceneNames == {"a", "b", "c"}
Pawn == "pawn"
\* this.playscene when it is null
NoScene == "null"
PlaneObj == "plane"
LightObjs == {"ambient", "directional", "hemisphere"}

\* the get_gltf calls there can be: a play scene with or without a lightmap
\* config, or the pawn
GltfLoads == [name : SceneNames \cup {Pawn}, config : BOOLEAN]

\* the fields of the Playspace and the children of its scene, as one record
PS ==
  [ scene |-> scene, children |-> children, playscene |-> playscene,
    plane |-> plane, lights |-> lights, controllers |-> controllers, ok |-> TRUE,
    val |-> "undefined" ]

Fail(S, what) == [S EXCEPT !.ok = FALSE, !.val = what]

\* this.playscene?.removeFromParent(); this.playscene = null
close_playscene(S) ==
  [S EXCEPT !.children = @ \ {S.playscene}, !.playscene = NoScene]

\* LightsA.stop: removeFromParent on each light, which is null after a stop
LightsA_stop(S) ==
  IF S.lights = "stopped" THEN Fail(S, "TypeError: this.lights[k] is null")
  ELSE [S EXCEPT !.children = @ \ LightObjs, !.lights = "stopped"]

\* Playspace.stop: the plane, fog and background, the lights, the play scene
stop(S) ==
  LET S1 == [S EXCEPT !.children = @ \ {PlaneObj}, !.plane = FALSE]
  IN IF ~S1.scene THEN Fail(S1, "TypeError: this._scene is null")
     ELSE IF S1.lights = "null" THEN Fail(S1, "TypeError: this.lights is null")
     ELSE The({ IF S2.ok THEN close_playscene(S2) ELSE S2 : S2 \in {LightsA_stop(S1)} })

\* Playspace.dispose: stop, then the scene and the controllers are dropped
dispose(S) ==
  The({ IF S1.ok THEN [S1 EXCEPT !.scene = FALSE, !.controllers = FALSE] ELSE S1 :
        S1 \in {stop(S)} })

\* the callback of add_gltf: every mesh of the loaded scene is set up with
\* this.lights.csm, then the scene is added to this._scene
add_gltf(S, name) ==
  IF S.lights = "null" THEN Fail(S, "TypeError: this.lights is null")
  ELSE IF ~S.scene THEN Fail(S, "TypeError: this._scene is null")
  ELSE [S EXCEPT !.children = @ \cup {name}]

\* the fields after a call that ended as S says; the navmesh is not involved
Store(S, op, arg) ==
  /\ UNCHANGED vars
  /\ scene' = S.scene
  /\ children' = S.children
  /\ playscene' = S.playscene
  /\ plane' = S.plane
  /\ lights' = S.lights
  /\ controllers' = S.controllers
  /\ pret' = [op |-> op, arg |-> arg, status |-> IF S.ok THEN "ok" ELSE "throw",
              val |-> S.val, late |-> life.stopped]

\* the scenes not asked for yet
Fresh == SceneNames \ ({g.name : g \in gltf_pending} \cup json_pending \cup life.opened)

Playspace_init ==
  /\ ~life.inited
  /\ Store([PS EXCEPT !.scene = TRUE, !.controllers = TRUE], "init", "")
  /\ life' = [life EXCEPT !.inited = TRUE]
  /\ UNCHANGED <<json_pending, gltf_pending>>

\* run: background, lights, floor, open_playscene("b"), add_gltf("pawn.glb")
Playspace_run ==
  /\ life.inited /\ ~life.ran /\ ~life.stopped
  /\ "b" \in Fresh
  /\ IF ~scene
     THEN /\ Store(Fail(PS, "TypeError: this._scene is null"), "run", "")
          /\ UNCHANGED <<json_pending, gltf_pending>>
     ELSE /\ Store([PS EXCEPT !.lights = "running", !.plane = TRUE,
                              !.children = @ \cup LightObjs \cup {PlaneObj}],
                   "run", "")
          /\ json_pending' = json_pending \cup {"b"}
          /\ gltf_pending' = gltf_pending \cup {[name |-> Pawn, config |-> FALSE]}
  /\ life' = [life EXCEPT !.ran = TRUE, !.opened = @ \cup {"b"}]

\* open_playscene(name, lightmaps): with lightmaps the config is fetched first,
\* without them load(null) runs at once
open_playscene(name, lightmaps) ==
  /\ life.inited
  /\ name \in Fresh
  /\ IF lightmaps
     THEN /\ json_pending' = json_pending \cup {name}
          /\ Store(PS, "open_playscene", name)
          /\ UNCHANGED gltf_pending
     ELSE /\ Store(close_playscene(PS), "open_playscene", name)
          /\ gltf_pending' = gltf_pending \cup {[name |-> name, config |-> FALSE]}
          /\ UNCHANGED json_pending
  /\ life' = [life EXCEPT !.opened = @ \cup {name}]

\* the get_json promise of open_playscene resolves: load(config)
get_json_then(name) ==
  /\ name \in json_pending
  /\ json_pending' = json_pending \ {name}
  /\ Store(close_playscene(PS), "get_json_then", name)
  /\ gltf_pending' = gltf_pending \cup {[name |-> name, config |-> TRUE]}
  /\ UNCHANGED life

\* a get_gltf promise resolves: the callback of add_gltf runs and, when it
\* returned, the caller's: this.playscene = scene for a play scene,
\* set_target on the controllers for the pawn. LightsA has no
\* apply_lightmaps and no apply_lightmaps_white, so the caller's callback ends
\* in a TypeError after that.
add_gltf_then(g) ==
  /\ g \in gltf_pending
  /\ gltf_pending' = gltf_pending \ {g}
  /\ \E S \in {add_gltf(PS, g.name)} :
       IF ~S.ok THEN Store(S, "add_gltf_then", g.name)
       ELSE IF g.name = Pawn
       THEN IF ~S.controllers
            THEN Store(Fail(S, "TypeError: this.camera_controller is null"),
                       "add_gltf_then", g.name)
            ELSE Store(Fail(S, "TypeError: LightsA.apply_lightmaps_white is not a function"),
                       "add_gltf_then", g.name)
       ELSE Store(Fail([S EXCEPT !.playscene = g.name],
                       IF g.config
                       THEN "TypeError: LightsA.apply_lightmaps is not a function"
                       ELSE "TypeError: LightsA.apply_lightmaps_white is not a function"),
                  "add_gltf_then", g.name)
  /\ UNCHANGED <<json_pending, life>>

Playspace_close_playscene ==
  /\ life.inited
  /\ Store(close_playscene(PS), "close_playscene", "")
  /\ UNCHANGED <<json_pending, gltf_pending, life>>

Playspace_stop ==
  /\ life.inited
  /\ life.stops < MaxStops
  /\ Store(stop(PS), "stop", "")
  /\ life' = [life EXCEPT !.stopped = TRUE, !.stops = @ + 1]
  /\ UNCHANGED <<json_pending, gltf_pending>>

Playspace_dispose ==
  /\ life.inited
  /\ life.stops < MaxStops
  /\ Store(dispose(PS), "dispose", "")
  /\ life' = [life EXCEPT !.stopped = TRUE, !.stops = @ + 1]
  /\ UNCHANGED <<json_pending, gltf_pending>>

\* ------------------------------------------------------------ behaviours
\* the Playspace after its constructor
PlayInit ==
  /\ scene = FALSE
  /\ children = {}
  /\ playscene = NoScene
  /\ plane = FALSE
  /\ lights = "null"
  /\ controllers = FALSE
  /\ json_pending = {}
  /\ gltf_pending = {}
  /\ life = [inited |-> FALSE, ran |-> FALSE, stopped |-> FALSE, stops |-> 0,
             opened |-> {}]
  /\ pret = [op |-> "none", arg |-> "", status |-> "ok", val |-> "undefined",
             late |-> FALSE]

Init ==
  /\ vertexObjs = <<>>
  /\ edgeObjs = <<>>
  /\ faceObjs = <<>>
  /\ verticies = EmptyTable
  /\ edges = EmptyTable
  /\ faces = <<>>
  /\ points = EmptyTable
  /\ guids = 0
  /\ phase = "idle"
  /\ loc = NoLoc
  /\ ret = [op |-> "none", status |-> "ok", val |-> "undefined"]
  /\ built = [mesh |-> NoMesh, ok |-> FALSE]
  /\ disposed = FALSE
  /\ PlayInit

Next ==
  \/ \E m \in Meshes : Build(m)
  \/ \E pos \in RegisterPositions : Register(pos)
  \/ \E id \in 0..(MaxPoints - 1), newpos \in Targets : MoveBegin(id, newpos)
  \/ WalkStep
  \/ Dispose

Spec == Init /\ [][Next]_vars

\* the Playspace with its calls and the completions of its loads in any order
PlayNext ==
  \/ Playspace_init
  \/ Playspace_run
  \/ \E name \in SceneNames, lightmaps \in BOOLEAN : open_playscene(name, lightmaps)
  \/ \E name \in SceneNames : get_json_then(name)
  \/ \E g \in GltfLoads : add_gltf_then(g)
  \/ Playspace_close_playscene
  \/ Playspace_stop
  \/ Playspace_dispose

PlaySpec == Init /\ [][PlayNext]_<<vars, pvars>>


\* ------------------------------------------------------------ properties
MoveReturned == phase = "idle" /\ ret.op = "move" /\ ret.status = "ok"
Moved == points[loc.id]
FacePos(fid) ==
  <<vertexObjs[faceObjs[fid].pa].pos, vertexObjs[faceObjs[fid].pb].pos,
    vertexObjs[faceObjs[fid].pc].pos>>
Reconstructed(p) ==
  barycentric_to_cartesian(FacePos(p.face)[1], FacePos(p.face)[2],
                           FacePos(p.face)[3], p.bcpos)

\* C1: after a move that returns, the point's barycentric coordinates are all
\* >= 0 in the face it is bound to and its world position is their
\* reconstruction from that face's vertices.
C1_MoveCommitsInsideFace ==
  MoveReturned => Inside(Moved.bcpos) /\ Moved.worldpos = Reconstructed(Moved)

\* the ids of the edges build created; dispose empties the edge table and
\* leaves the Edge objects and their ids
EdgeIds == {edgeObjs[n].id : n \in DOMAIN edgeObjs}

\* C2: every move ends: every pass of the walk loop run so far that did not
\* leave the loop has added one more edge of the mesh to tested_edges, so a
\* call runs at most one pass per edge of the mesh and one more.
C2_MoveTerminates ==
  /\ phase = "walk" =>
       /\ loc.tested_edges \subseteq EdgeIds
       /\ loc.iters = Cardinality(loc.tested_edges)
  /\ (phase = "idle" /\ ret.op = "move") =>
       loc.iters <= Cardinality(EdgeIds) + 1

\* a move on the single triangle towards a target outside it has returned
\* after clamping
C2_Witness ==
  /\ MoveReturned
  /\ built.mesh = SingleMesh
  /\ loc.clampEdge # Null
  /\ loc.iters >= 2

\* the triangles of an indexed mesh, as sets of vertex indices
Triangles(m) ==
  [t \in 1..(Len(m.index) \div 3) |->
     {m.index[3 * t - 2], m.index[3 * t - 1], m.index[3 * t]}]
Indices(m) == {m.index[i] : i \in DOMAIN m.index}
Pairs(m) == {{a, b} : a, b \in Indices(m)} \ {{a} : a \in Indices(m)}
Uses(m, pr) == {t \in DOMAIN Triangles(m) : pr \subseteq Triangles(m)[t]}
NonManifold(m) == \E pr \in Pairs(m) : Cardinality(Uses(m, pr)) >= 3

\* the faces whose constructor returned and that hold edge e
Holders(e) ==
  {f \in DOMAIN faceObjs :
     faceObjs[f].normal # NoVec /\ e \in {faceObjs[f].ea, faceObjs[f].eb, faceObjs[f].ec}}

\* C3: build throws when a vertex pair is used by three or more triangles, and
\* no edge ever has more than two constructed faces on it.
C3_NonManifoldRejected ==
  /\ NonManifold(built.mesh) => ~built.ok
  /\ \A e \in DOMAIN edgeObjs : Cardinality(Holders(e)) <= 2

C3_Witness ==
  /\ NonManifold(built.mesh)
  /\ ret.op = "build" /\ ret.status = "throw"
  /\ \E e \in DOMAIN edgeObjs : edgeObjs[e].left # Null /\ edgeObjs[e].right # Null

Manifold(m) == ~NonManifold(m)
DistinctTriples(m) ==
  \A t, u \in DOMAIN Triangles(m) :
    t # u => SubSeq(m.index, 3 * t - 2, 3 * t) # SubSeq(m.index, 3 * u - 2, 3 * u)
UsedPairs(m) == {pr \in Pairs(m) : Uses(m, pr) # {}}
BuildReturned == ret.op = "build" /\ ret.status = "ok"
Incident(e) ==
  (IF edgeObjs[e].left # Null THEN 1 ELSE 0) + (IF edgeObjs[e].right # Null THEN 1 ELSE 0)
\* the Edge objects in the edge table that join the vertices of the index pair pr
EdgesOf(pr) ==
  {edges[k] : k \in {h \in DOMAIN edges :
     {edgeObjs[edges[h]].a, edgeObjs[edges[h]].b} = {verticies[i] : i \in pr}}}

\* C4: after a successful build of a manifold list of T different triangles
\* the vertex table has one entry per vertex index, the edge table one entry
\* per used vertex pair, the face table T entries, and every edge as many
\* incident faces as triangles use its pair.
C4_BuildTables ==
  (BuildReturned /\ Manifold(built.mesh) /\ DistinctTriples(built.mesh)) =>
    /\ DOMAIN verticies = Indices(built.mesh)
    /\ Cardinality(DOMAIN edges) = Cardinality(UsedPairs(built.mesh))
    /\ Len(faces) = Len(built.mesh.index) \div 3
    /\ \A pr \in UsedPairs(built.mesh) :
         /\ Cardinality(EdgesOf(pr)) = 1
         /\ \A e \in EdgesOf(pr) : Incident(e) = Cardinality(Uses(built.mesh, pr))

FaceEdges(f) == {faceObjs[f].ea, faceObjs[f].eb, faceObjs[f].ec}
TableFaces == {faces[n].obj : n \in DOMAIN faces}

\* C5: after a successful build, and through register and move, every face of
\* the face table is the left or right face of each of its edges, and every
\* left or right face of an edge of the edge table is in the face table and
\* holds that edge.
C5_IncidenceConsistent ==
  built.ok =>
    /\ \A f \in TableFaces : \A e \in FaceEdges(f) :
         f \in {edgeObjs[e].left, edgeObjs[e].right}
    /\ \A k \in DOMAIN edges :
         \A s \in {edgeObjs[edges[k]].left, edgeObjs[edges[k]].right} \ {Null} :
           s \in TableFaces /\ edges[k] \in FaceEdges(s)

\* C6: register binds the new point to the first face in table order whose
\* barycentric coordinates of the projected position are all >= 0, stores it
\* under the id it returns, and returns null and changes nothing when no face
\* qualifies.
C6_RegisterFirstFace ==
  [][\A pos \in RegisterPositions : Register(pos) =>
       LET S == {n \in DOMAIN faces :
                   Inside(FaceBc(faceObjs[faces[n].obj], pos).bcpos)}
       IN IF S = {}
          THEN ret'.val = NullId /\ points' = points /\ guids' = guids
          ELSE LET first == CHOOSE n \in S : \A j \in S : n <= j
               IN /\ ret'.val = PointId(guids)
                  /\ guids' = guids + 1
                  /\ DOMAIN points' = DOMAIN points \cup {guids}
                  /\ \A i \in DOMAIN points : points'[i] = points[i]
                  /\ points'[guids].face = faces[first].obj
                  /\ points'[guids].bcpos =
                       FaceBc(faceObjs[faces[first].obj], pos).bcpos
                  /\ points'[guids].worldpos =
                       FaceBc(faceObjs[faces[first].obj], pos).projected_pos]_vars

\* a point registered on the first of two faces that both hold its position
C6_Witness ==
  /\ ret.op = "register" /\ ret.val = PointId(0)
  /\ Len(faces) >= 2
  /\ points[0].face = faces[1].obj
  /\ Inside(FaceBc(faceObjs[faces[2].obj], points[0].worldpos).bcpos)

Zero == I(0)
OnSegment(p, a, b) ==
  /\ VCross(VSub(p, a), VSub(b, a)) = <<Zero, Zero, Zero>>
  /\ QGe0(VDot(VSub(p, a), VSub(b, a)))
  /\ QGe0(VDot(VSub(p, b), VSub(a, b)))
Dist2(p, q) == VDot(VSub(p, q), VSub(p, q))
EdgeA(e) == vertexObjs[edgeObjs[e].a].pos
EdgeB(e) == vertexObjs[edgeObjs[e].b].pos
Clamped == ret.op = "move" /\ loc.clampEdge # Null

\* C7: when the edge found for a negative component has no second face, the
\* working target is put on that edge's segment and the point stays on the
\* same face; the move then returns a position on that edge, not the raw
\* target. On the unit quad that position is the boundary point nearest the
\* target.
C7_ClampOnBoundaryEdge ==
  /\ (phase = "walk" /\ Clamped) =>
       /\ points[loc.id].face = loc.clampFace
       /\ Edge_other(edgeObjs[loc.clampEdge], loc.clampFace) = Null
       /\ OnSegment(loc.np, EdgeA(loc.clampEdge), EdgeB(loc.clampEdge))
  /\ (MoveReturned /\ Clamped) =>
       /\ Moved.face = loc.clampFace
       /\ loc.clampEdge \in FaceEdges(Moved.face)
       /\ OnSegment(Moved.worldpos, EdgeA(loc.clampEdge), EdgeB(loc.clampEdge))
       /\ Moved.worldpos # loc.newpos
  /\ (MoveReturned /\ Clamped /\ built.mesh = QuadMesh) =>
       \A e \in DOMAIN edgeObjs :
         Incident(e) = 1 =>
           ~QLt(Dist2(loc.newpos, project_on_line(EdgeA(e), EdgeB(e), loc.newpos)),
                Dist2(loc.newpos, Moved.worldpos))

C7_Witness ==
  /\ MoveReturned /\ Clamped
  /\ built.mesh = QuadMesh
  /\ loc.newpos = V3(7, 7, 0)
  /\ Moved.worldpos = V3(1, 1, 0)

PlanarMesh(m) == \A i \in 1..(Len(m.position) \div 3) : m.position[3 * i] = 0
Contains(f, pos) == Inside(FaceBc(faceObjs[f], pos).bcpos)
\* the target of the returned move lies in the mesh plane, inside a built face
\* other than the one the point started on and outside that one
TargetInOtherFace ==
  /\ MoveReturned
  /\ PlanarMesh(built.mesh)
  /\ loc.newpos[3] = Zero
  /\ ~Contains(loc.pre.face, loc.newpos)
  /\ \E f \in DOMAIN faceObjs :
       ~Unusable(faceObjs[f]) /\ f # loc.pre.face /\ Contains(f, loc.newpos)

C9_MoveIdempotent ==
  (MoveReturned /\ loc.repeat) =>
    Moved.face = loc.pre.face /\ Moved.worldpos = loc.pre.worldpos

\* C10: no call runs more passes of the walk loop than the cap allows without
\* throwing the Deadlock error.
C10_WalkCapped ==
  (ret.op = "move" /\ ret.status # "throw") => loc.iters <= DeadlockCap + 1

MoveThrew == phase = "idle" /\ ret.op = "move" /\ ret.status = "throw"

\* C11: after a move that threw, the point is as it was before the call, or
\* bound to a usable face with barycentric coordinates inside it and the world
\* position they reconstruct; never on a new face with the old coordinates.
C11_FailedMoveAtomic ==
  (MoveThrew /\ loc.id \in DOMAIN points) =>
    \/ Moved = loc.pre
    \/ /\ ~Unusable(faceObjs[Moved.face])
       /\ Inside(Moved.bcpos)
       /\ Moved.worldpos = Reconstructed(Moved)
       /\ Moved.bcpos # loc.pre.bcpos

\* C12: a build that throws leaves the vertex, edge and face tables and every
\* edge's left and right as they were before the call.
C12_FailedBuildRollsBack ==
  [][(built.mesh = NoMesh /\ built'.mesh # NoMesh /\ ~built'.ok) =>
       /\ verticies' = verticies /\ edges' = edges /\ faces' = faces
       /\ \A e \in DOMAIN edgeObjs' :
            IF e \in DOMAIN edgeObjs
            THEN edgeObjs'[e].left = edgeObjs[e].left
                 /\ edgeObjs'[e].right = edgeObjs[e].right
            ELSE edgeObjs'[e].left = Null /\ edgeObjs'[e].right = Null]_vars

TablesEmpty ==
  DOMAIN verticies = {} /\ DOMAIN edges = {} /\ faces = <<>> /\ DOMAIN points = {}
Released(e) == e.left = Null /\ e.right = Null /\ e.a = Null /\ e.b = Null
FaceReleased(f) ==
  f.ea = Null /\ f.eb = Null /\ f.ec = Null /\ f.pa = Null /\ f.pb = Null /\ f.pc = Null
CallAfterDispose == disposed /\ phase = "idle" /\ ret.op \in {"register", "move"}

\* C13: after dispose the vertex, edge, face and point tables are empty, every
\* edge and face of the mesh has dropped its references, and a register or
\* move called afterwards ends in an error.
C13_DisposeClears ==
  disposed =>
    /\ TablesEmpty
    /\ \A e \in DOMAIN edgeObjs : Released(edgeObjs[e])
    /\ \A f \in DOMAIN faceObjs : FaceReleased(faceObjs[f])
    /\ CallAfterDispose => ret.status = "throw"

MeshUnchanged ==
  UNCHANGED <<vertexObjs, edgeObjs, faceObjs, verticies, edges, faces>>

\* C14: a move with an id that is not in the point table ends in an error on
\* entering the loop, before a pass has run, and leaves the point table, the
\* points and the mesh as they were.
C14_UnknownIdFailsFast ==
  [][/\ (phase = "idle" /\ phase' = "walk" /\ loc'.id \notin DOMAIN points) =>
          points' = points /\ guids' = guids /\ MeshUnchanged
     /\ (phase = "walk" /\ loc.id \notin DOMAIN points) =>
          /\ loc.iters = 0 /\ loc.tested_edges = {}
          /\ phase' = "idle" /\ ret'.op = "move" /\ ret'.status = "throw"
          /\ loc'.iters = 0
          /\ points' = points /\ guids' = guids /\ MeshUnchanged]_vars

\* a move with an unknown id has thrown on a built mesh that holds a point
C14_Witness ==
  /\ MoveThrew /\ loc.id \notin DOMAIN points
  /\ built.ok /\ ~disposed /\ DOMAIN points # {}

\* C15: the k-th register that succeeds returns "p" + (k-1) and stores the new
\* point under that id without touching the points already stored, so ids are
\* distinct and increasing; a register that returns null takes no id.
C15_PointIdsUnique ==
  [][/\ guids' # guids =>
          /\ guids' = guids + 1
          /\ ret'.op = "register" /\ ret'.val = <<"p", guids>>
          /\ guids \notin DOMAIN points
          /\ DOMAIN points' = DOMAIN points \cup {guids}
          /\ \A i \in DOMAIN points : points'[i] = points[i]
     /\ (ret'.op = "register" /\ ret'.val = <<"null">>) =>
          guids' = guids /\ points' = points
     /\ DOMAIN points' = 0..(guids' - 1)
     /\ \A i \in DOMAIN points' : points'[i].id = i]_vars

\* the second register that succeeded returned "p1" and both points are stored
C15_Witness ==
  /\ ret.op = "register" /\ ret.val = <<"p", 1>>
  /\ guids = 2 /\ DOMAIN points = {0, 1}
  /\ points[0].id = 0 /\ points[1].id = 1

\* the step crosses edge e or clamps against it
ActsOn(e) ==
  \/ /\ points'[loc.id].face # points[loc.id].face
     /\ points'[loc.id].face = Edge_other(edgeObjs[e], points[loc.id].face)
  \/ /\ points' = points
     /\ loc'.clampEdge = e
     /\ Edge_other(edgeObjs[e], points[loc.id].face) = Null

\* C16: a call starts with no edge tested; every pass that stays in the loop
\* acts on one edge that was not tested before in the call and marks it, the
\* pass that commits marks none, and so a call runs at most one pass per edge
\* and one more.
C16_EdgeActedOnce ==
  [][/\ (phase = "idle" /\ phase' = "walk") =>
          loc'.tested_edges = {} /\ loc'.iters = 0
     /\ (phase = "walk" /\ phase' = "walk") =>
          \E e \in DOMAIN edgeObjs :
            /\ edgeObjs[e].id \notin loc.tested_edges
            /\ loc'.tested_edges = loc.tested_edges \cup {edgeObjs[e].id}
            /\ ActsOn(e)
            /\ loc'.iters = loc.iters + 1
     /\ (phase = "walk" /\ phase' = "idle" /\ ret'.status = "ok") =>
          /\ loc'.tested_edges = loc.tested_edges
          /\ loc'.iters <= Cardinality(EdgeIds) + 1]_vars

\* the move along the strip has returned after twelve crossings, one per edge
C16_Witness ==
  /\ MoveReturned /\ built.mesh = StripMesh
  /\ Cardinality(loc.tested_edges) = 12 /\ loc.crossed = 12 /\ loc.iters = 13

\* C17: no step of register or move changes a vertex, an edge, a face or one
\* of the three tables, register changes no point that was already stored,
\* and a step of move(id, target) changes no point but the one with that id.
C17_TopologyAndOtherPointsKept ==
  [][/\ ret'.op \in {"register", "move"} => MeshUnchanged
     /\ ret'.op = "register" =>
          \A i \in DOMAIN points : i \in DOMAIN points' /\ points'[i] = points[i]
     /\ ret'.op = "move" =>
          /\ DOMAIN points' = DOMAIN points
          /\ \A i \in DOMAIN points \ {loc'.id} : points'[i] = points[i]]_vars

\* with two points on one face of a built mesh, the move of the second to
\* another face has returned and the first is where it was
C17_Witness ==
  /\ MoveReturned /\ built.ok /\ ~disposed
  /\ DOMAIN points = {0, 1} /\ loc.id = 1
  /\ Moved.face # loc.pre.face
  /\ points[0].face = loc.pre.face

\* the edges of face f that join the two vertices other than its k-th
Joining(f, k) ==
  {e \in {f.ea, f.eb, f.ec} :
     {edgeObjs[e].a, edgeObjs[e].b} = {f.pa, f.pb, f.pc} \ {FaceVertex(f, k)}}
BuiltFaces == {f \in DOMAIN faceObjs : ~Unusable(faceObjs[f])}
\* the components of the target that are negative in the point's face and
\* whose opposite edge is not tested yet
Pending ==
  LET f == faceObjs[points[loc.id].face]
      bcpos == FaceBc(f, loc.np).bcpos
  IN {k \in 1..3 : QLt0(bcpos[k])
                     /\ \A e \in Joining(f, k) : edgeObjs[e].id \notin loc.tested_edges}

\* C18: on every face build constructed, find_opposide_edge of pa, pb, pc is
\* the edge joining the other two vertices, never undefined; a pass of the
\* walk acts on the edge opposite the first negative component, in x, y, z
\* order, whose edge is not tested, on no other edge, and commits when there
\* is none.
C18_OppositeEdge ==
  [][/\ ~disposed =>
          \A f \in BuiltFaces : \A k \in 1..3 :
            /\ find_opposide_edge(edgeObjs, faceObjs[f], FaceVertex(faceObjs[f], k)) # Null
            /\ Joining(faceObjs[f], k) =
                 {find_opposide_edge(edgeObjs, faceObjs[f], FaceVertex(faceObjs[f], k))}
     /\ (~disposed /\ phase = "walk" /\ phase' = "walk") =>
          /\ Pending # {}
          /\ \E k \in Pending :
               /\ \A j \in Pending : k <= j
               /\ \E e \in Joining(faceObjs[points[loc.id].face], k) :
                    /\ ActsOn(e)
                    /\ loc'.tested_edges = loc.tested_edges \cup {edgeObjs[e].id}
     /\ (~disposed /\ phase = "walk" /\ phase' = "idle" /\ ret'.status = "ok") =>
          Pending = {} /\ loc'.tested_edges = loc.tested_edges]_vars

\* the first pass of a move on the dart whose target is negative in x and y
\* has clamped against the edge opposite pa
C18_Witness ==
  /\ phase = "walk" /\ loc.iters = 1 /\ built.mesh = DartMesh /\ ~disposed
  /\ QLt0(FaceBc(faceObjs[loc.pre.face], loc.newpos).bcpos[1])
  /\ QLt0(FaceBc(faceObjs[loc.pre.face], loc.newpos).bcpos[2])
  /\ loc.clampEdge \in Joining(faceObjs[loc.pre.face], 1)

\* the play scenes attached to the scene
PlayScenesAttached == children \cap SceneNames

\* C19: whatever the order of the calls and of the completions of the loads,
\* the only play scene attached to the scene is the one this.playscene names.
C19_OnePlaysceneAttached == PlayScenesAttached \subseteq {playscene}

\* the errors of a callback that finds the Playspace torn down
TeardownErrors ==
  { "TypeError: this._scene is null", "TypeError: this.camera_controller is null" }

\* C20: stop and dispose return without an error in every order after init,
\* and the callback of a gltf load that completes after a stop or a dispose
\* neither fails on the released Playspace nor attaches what it loaded.
C20_TeardownSafe ==
  /\ pret.op \in {"stop", "dispose"} => pret.status = "ok"
  /\ (pret.op = "add_gltf_then" /\ pret.late) =>
       pret.val \notin TeardownErrors /\ pret.arg \notin children
====
